---- MODULE Spec2Model ----
(***************************************************************************)
(* Server-side session middleware (tbounsiar/server_session).              *)
(*                                                                         *)
(* State: the process-wide store STATE_SERVER (a map id -> serialized      *)
(* State behind two RwLocks), the reaper thread, the wall clock, and a     *)
(* small number of in-flight requests, each walking through               *)
(* ServerSessionMiddleware::call: get_session_id, load, handler,           *)
(* finalization.                                                           *)
(***************************************************************************)
EXTENDS Integers, Sequences, FiniteSets, TLC

(***************************************************************************)
(* Bounds of the model.                                                    *)
(***************************************************************************)
NumIds == 2          \* size of the id space generate_id draws from
NumSlots == 2        \* requests that can be in flight at once
MaxRequests == 2     \* requests started in one behaviour
MaxOps == 2          \* session calls the handlers make in one behaviour
MaxTime == 1         \* seconds the clock advances
MaxMinutes == 0      \* largest argument of update_timeout / set_timeout
MaxConstruct == 2    \* ServerSession constructions (one per worker)

(***************************************************************************)
(* Program constants.                                                      *)
(***************************************************************************)
DefaultTimeoutSecs == 30 * 60     \* ServerSessionState::new
HandleTimeoutSecs == 10           \* Session::get_session
SecsPerMinute == 60               \* update_timeout / set_timeout
MillisPerSec == 1000              \* serde_millis
SweepIntervalSecs == 1            \* reaper's thread::sleep
YearSecs == 365 * 24 * 60 * 60    \* remove_cookie: Duration::days(365)
MaxCookieLen == 4064              \* set_cookie overflow limit
IdLen == 32                       \* generate_id
MinKeyLen == 32                   \* signed / private: "Panics if key length is less than 32 bytes"

Ids == 1..NumIds
Slots == 1..NumSlots
Keys == {"counter"}
Vals == {1, 2}
Minutes == 0..MaxMinutes

\* Option<T>: None, Some(x)
None == <<>>
Some(x) == <<x>>
Unwrap(o) == o[1]

NoId == 0                      \* the empty string as an id
CookieName == "actix-session"
OtherName == "other"
NoSig == <<"none", 0>>         \* an unsigned value
Forged == <<"forged", 0>>      \* a signature that does not verify
NoCookie == [name |-> "", value |-> NoId, sig |-> NoSig]

\* the security keys an application passes, by their length in bytes
KeyLens == {MinKeyLen - 16, MinKeyLen}
\* the key ServerSessionInner::new builds: Key::derive_from(&[0; 32])
ZeroKey == [bytes |-> "zero", len |-> MinKeyLen]

VARIABLES
    store,        \* ServerSessionState.state: id -> Option of a serialized State
    defTimeout,   \* ServerSessionState.timeout, seconds
    started,      \* ServerSessionState.started
    spawned,      \* reaper threads spawned so far
    reaper,       \* "none" | "running" | "dead"
    poisoned,     \* STATE_SERVER (outer RwLock) is poisoned
    mapPoisoned,  \* the map's RwLock (inner) is poisoned
    rheld,        \* slots holding a read guard of STATE_SERVER across steps
    now,          \* wall clock, seconds
    constructed,  \* ServerSession values constructed
    issued,       \* ids whose signed cookie a client has received
    nreq,         \* requests started
    nops,         \* session calls made by handlers
    touched,      \* ids a request wrote since the clock last advanced
    rq            \* per slot: the request in it

vars == <<store, defTimeout, started, spawned, reaper, poisoned, mapPoisoned,
          rheld, now, constructed, issued, nreq, nops, touched, rq>>

(***************************************************************************)
(* State (server_session_state.rs).                                        *)
(***************************************************************************)
EmptyMap == [k \in Keys |-> None]

\* State::new with UNIX_EPOCH in place of SystemTime::now()
State_new_epoch(timeout, t) ==
    [value |-> EmptyMap, timeout |-> timeout, last_use_time |-> 0]

\* State::new(timeout): empty map, last_use_time = SystemTime::now()
State_new(timeout, t) ==
    [value |-> EmptyMap, timeout |-> timeout, last_use_time |-> t]

\* serde_json::to_string(value) of a handler value
to_json(v) == <<"json", v>>

\* serde_json::from_str of a stored value
from_json(s) == s[2]

\* State::set / remove / clear / extend / update_timeout
State_set(st, k, v) == [st EXCEPT !.value[k] = to_json(v)]
State_remove(st, k) == [st EXCEPT !.value[k] = None]
State_clear(st) == [st EXCEPT !.value = EmptyMap]
State_extend(st, data) ==
    [st EXCEPT !.value = [k \in Keys |-> IF data.value[k] # None
                                           THEN data.value[k] ELSE st.value[k]]]
State_update_timeout(st, timeout) == [st EXCEPT !.timeout = timeout]

\* State::get
State_get(st, k) ==
    IF st.value[k] # None THEN Some(from_json(st.value[k])) ELSE None

\* State::is_expired: SystemTime::now() > last_use_time + timeout
is_expired(st, t) == t > st.last_use_time + st.timeout

\* serde_json::to_string(&State): durations and times as milliseconds
serialize(st) ==
    [value |-> st.value,
     timeout |-> st.timeout * MillisPerSec,
     last_use_time |-> st.last_use_time * MillisPerSec]

\* serde_json::from_str::<State>
deserialize(s) ==
    [value |-> s.value,
     timeout |-> s.timeout \div MillisPerSec,
     last_use_time |-> s.last_use_time \div MillisPerSec]

(***************************************************************************)
(* ServerSessionState (server_session_state.rs).                           *)
(***************************************************************************)
\* a stored string that is not the JSON of a State
Undecodable == [json |-> "garbage"]

\* serde_json::from_str::<State>(s) is Ok
decodes(s) == s # Undecodable

\* get_state: Some(deserialized state), or None for an absent key and for a
\* value that does not decode
get_state(m, key) ==
    IF m[key] # None /\ decodes(Unwrap(m[key]))
    THEN Some(deserialize(Unwrap(m[key]))) ELSE None

\* new_state: State::new(self.timeout)
new_state(timeout, t) == State_new(timeout, t)

\* set_state that keeps the keys of the entry it replaces
set_state_merge(m, key, st) ==
    [m EXCEPT ![key] = Some(serialize(
        IF m[key] # None THEN State_extend(deserialize(Unwrap(m[key])), st)
        ELSE st))]

\* set_state: insert the serialized state
set_state(m, key, st) == [m EXCEPT ![key] = Some(serialize(st))]

\* remove_state: remove(key).unwrap() panics when the key is absent
remove_state_panics(m, key) == m[key] = None
remove_state(m, key) == [m EXCEPT ![key] = None]

\* set_timeout(minutes)
set_timeout(minutes) == minutes * SecsPerMinute

\* the reaper's retain: keep the entries that are not expired
retain(m, t) ==
    [i \in Ids |-> IF m[i] # None /\ is_expired(deserialize(Unwrap(m[i])), t)
                   THEN None ELSE m[i]]

\* the closure of retain panics: from_str(value).unwrap() on a value that
\* does not decode
retain_panics(m) == \E i \in Ids : m[i] # None /\ ~decodes(Unwrap(m[i]))

\* the map a panicking retain leaves: the entries in `visited` were examined
\* before the panic (the map's iteration order is unspecified)
retain_until_panic(m, t, visited) ==
    [i \in Ids |-> IF i \in visited /\ is_expired(deserialize(Unwrap(m[i])), t)
                   THEN None ELSE m[i]]

(***************************************************************************)
(* Cookies (server_session_inner.rs).                                      *)
(***************************************************************************)
\* the signature a signed / private jar puts on a value
Sign(v) == <<"sig", v>>

\* jar.signed(&key).get(name): Some only when the signature verifies
Verify(c) == c.sig = Sign(c.value)

\* ServerSessionInner::new as called by signed(key) / private(key): the key
\* passed is not used, the instance holds the key derived from 32 zero bytes
ServerSessionInner_new(keylen) ==
    [name |-> CookieName, key |-> ZeroKey, lazy |-> FALSE]

\* get_session_id: the id of the first cookie of the configured name that
\* verifies, else a generated id g
get_session_id(c, g) ==
    IF c # NoCookie /\ c.name = CookieName /\ Verify(c)
    THEN [is_new |-> FALSE, id |-> c.value]
    ELSE [is_new |-> TRUE, id |-> g]

\* length of an id as a cookie value; NoId is the empty string
value_len(id) == IF id = NoId THEN 0 ELSE IdLen

\* set_cookie: nothing when lazy and the value is empty, or on overflow;
\* else one signed cookie appended to the response headers
set_cookie(headers, lz, id) ==
    IF lz /\ value_len(id) = 0 THEN headers
    ELSE IF value_len(id) > MaxCookieLen THEN headers
    ELSE Append(headers, [name |-> CookieName, value |-> id, sig |-> Sign(id),
                          max_age |-> None, expires |-> None])

\* remove_cookie without set_max_age and set_expires
remove_cookie_unexpired(headers, t) ==
    Append(headers, [name |-> CookieName, value |-> NoId, sig |-> NoSig,
                     max_age |-> None, expires |-> None])

\* remove_cookie: empty value, Max-Age 0, expiry one year in the past
remove_cookie(headers, t) ==
    Append(headers, [name |-> CookieName, value |-> NoId, sig |-> NoSig,
                     max_age |-> Some(0), expires |-> Some(t - YearSecs)])

(***************************************************************************)
(* Session handle (session.rs).                                            *)
(***************************************************************************)
\* SessionInner::new(timeout)
SessionInner_new(timeout, t) ==
    [state |-> State_new(timeout, t), status |-> "Unchanged"]

\* Session::get_session on a request without a handle
get_session(t) == SessionInner_new(HandleTimeoutSecs, t)

\* Session::set_session without inner.state.extend(data.value)
set_session_lost(data, t) ==
    LET inner == get_session(t)
    IN [inner EXCEPT !.state = State_update_timeout(inner.state, data.timeout)]

\* Session::set_session without inner.state.update_timeout(data.timeout)
set_session_own_timeout(data, t) ==
    LET inner == get_session(t)
    IN [inner EXCEPT !.state = State_extend(inner.state, data)]

\* Session::set_session(data, req)
set_session(data, t) ==
    LET inner == get_session(t)
    IN [inner EXCEPT !.state = State_extend(
                           State_update_timeout(inner.state, data.timeout), data)]

\* Session::set without the test of the status
set_unguarded(inner, k, v) ==
    [state |-> State_set(inner.state, k, v), status |-> "Changed"]

\* Session::set
set(inner, k, v) ==
    IF inner.status # "Purged"
    THEN [state |-> State_set(inner.state, k, v), status |-> "Changed"]
    ELSE inner

\* Session::update_timeout
update_timeout(inner, minutes) ==
    IF inner.status # "Purged"
    THEN [state |-> State_update_timeout(inner.state, minutes * SecsPerMinute),
          status |-> "Changed"]
    ELSE inner

\* Session::remove
remove(inner, k) ==
    IF inner.status # "Purged"
    THEN [state |-> State_remove(inner.state, k), status |-> "Changed"]
    ELSE inner

\* Session::clear
clear(inner) ==
    IF inner.status # "Purged"
    THEN [state |-> State_clear(inner.state), status |-> "Changed"]
    ELSE inner

\* Session::purge
purge(inner) == [state |-> State_clear(inner.state), status |-> "Purged"]

\* Session::renew
renew(inner) ==
    IF inner.status # "Purged" THEN [inner EXCEPT !.status = "Renewed"] ELSE inner

\* Session::get_changes: the detached state and the status; the handle keeps a
\* fresh State with the same timeout
get_changes(inner, t) ==
    [status |-> inner.status, state |-> inner.state,
     left |-> [inner EXCEPT !.state = State_new(inner.state.timeout, t)]]

\* the session calls a handler can make
OpSet ==
    [op : {"set"}, key : Keys, arg : Vals]
    \cup [op : {"remove"}, key : Keys, arg : {0}]
    \cup [op : {"update_timeout"}, key : {""}, arg : Minutes]
    \cup [op : {"clear", "purge", "renew"}, key : {""}, arg : {0}]

apply_op(inner, o) ==
    CASE o.op = "set" -> set(inner, o.key, o.arg)
      [] o.op = "remove" -> remove(inner, o.key)
      [] o.op = "update_timeout" -> update_timeout(inner, o.arg)
      [] o.op = "clear" -> clear(inner)
      [] o.op = "purge" -> purge(inner)
      [] o.op = "renew" -> renew(inner)

(***************************************************************************)
(* Requests.                                                               *)
(***************************************************************************)
\* a slot with no request in it
IdleReq ==
    [pc |-> "idle", is_new |-> FALSE, id |-> NoId,
     inner |-> SessionInner_new(0, 0), taken |-> None, resp |-> <<>>,
     waiting |-> FALSE,
     \* history of the request
     ckind |-> "none",        \* its session cookie: "none" | "valid" | "forged"
     claimed |-> NoId,        \* the id its session cookie carries
     seeded |-> FALSE,        \* the handle was seeded from a stored state
     tLoad |-> 0,             \* the clock when it loaded
     defLoad |-> 0,           \* the store's default timeout when it loaded
     calledUpd |-> FALSE,     \* the handler called update_timeout
     setAfterPurge |-> FALSE, \* the handler called set after purge
     wrote |-> "none",        \* its store operation: "none" | "set" | "remove"
     post |-> None]           \* the entry under its id right after that operation

\* the cookies a client can send: none, one the server issued, an issued one
\* whose signature was tampered with, an issued one under another name
ClientCookies ==
    {NoCookie}
    \cup {[name |-> CookieName, value |-> x, sig |-> Sign(x)] : x \in issued}
    \cup {[name |-> CookieName, value |-> x, sig |-> Forged] : x \in issued}
    \cup {[name |-> OtherName, value |-> x, sig |-> Sign(x)] : x \in issued}

\* what a request's cookie is: no cookie of the configured name, one whose
\* signature is the server's, one whose signature is not
cookie_kind(c) ==
    IF c = NoCookie \/ c.name # CookieName THEN "none"
    ELSE IF c.sig = Sign(c.value) THEN "valid" ELSE "forged"

\* the ids of the session cookies a response delivers
delivered(headers) ==
    {headers[i].value : i \in {j \in DOMAIN headers : headers[j].sig # NoSig}}

\* some request has called write() on STATE_SERVER and is blocked
WriterWaiting == \E s \in Slots : rq[s].waiting

\* a request whose call() has ended: response returned, handler error, panic
Finished(q) == q.pc \in {"done", "failed", "panicked"}

\* a slot a new request can take
Free(q) == q.pc = "idle" \/ Finished(q)

\* slot r ends as q; the record of the request that ended before it is dropped
Finish(r, q) ==
    [s \in Slots |-> IF s = r THEN q
                     ELSE IF Finished(rq[s]) THEN IdleReq ELSE rq[s]]

\* the entry a new client's request that set "counter" to 1 leaves in the
\* store when it runs at time 0 under default timeout d
SeedEntry(d) == Some(serialize(State_set(new_state(d, 0), "counter", 1)))

\* The server after its first construction, ServerSession::signed(key) with
\* or without .set_timeout(m): the reaper runs. The store is empty, or holds
\* the session of one earlier client, who has its cookie.
Init ==
    /\ defTimeout \in {DefaultTimeoutSecs} \cup {set_timeout(m) : m \in Minutes}
    /\ \E seed \in {FALSE} \cup {defTimeout = DefaultTimeoutSecs} :
          /\ store = [i \in Ids |-> IF seed /\ i = 1 THEN SeedEntry(defTimeout)
                                    ELSE None]
          /\ issued = IF seed THEN {1} ELSE {}
    /\ started = TRUE
    /\ spawned = 1
    /\ reaper = "running"
    /\ poisoned = FALSE
    /\ mapPoisoned = FALSE
    /\ rheld = {}
    /\ now = 0
    /\ constructed = 1
    /\ nreq = 0
    /\ nops = 0
    /\ touched = {}
    /\ rq = [r \in Slots |-> IdleReq]

\* ServerSessionState::start without the test of `started`
start_unguarded ==
    /\ started' = TRUE
    /\ spawned' = spawned + 1
    /\ reaper' = "running"

\* ServerSessionState::start under STATE_SERVER.write()
start ==
    IF started
    THEN UNCHANGED <<started, spawned, reaper>>
    ELSE /\ started' = TRUE
         /\ spawned' = spawned + 1
         /\ reaper' = "running"

\* a further worker's ServerSession::signed(key) and the builder calls on it,
\* at startup, before the requests of the behaviour, with a key of keylen
\* bytes: ServerSessionInner::new, STATE_SERVER.write().unwrap().start(), then
\* set_timeout(minutes) if tm is Some
Construct(tm, keylen) ==
    /\ constructed < MaxConstruct
    /\ ServerSessionInner_new(keylen).key = ZeroKey
    /\ nreq = 0
    /\ rheld = {}
    /\ ~poisoned
    /\ start
    /\ constructed' = constructed + 1
    /\ defTimeout' = IF tm # None THEN set_timeout(Unwrap(tm)) ELSE defTimeout
    /\ UNCHANGED <<store, poisoned, mapPoisoned, rheld, now, issued, nreq, nops, touched, rq>>

\* call(): a request arrives with cookie c; get_session_id, then
\*   if let Some(state) = STATE_SERVER.read().unwrap().get_state(&id)
\* The request takes the lowest free slot; every worker has constructed its
\* ServerSession.
\* g1 and g2 are what generate_id returns in get_session_id and in the else
\* branch. The read guard lives to the end of the if-let, so the else branch
\* starts with the guard still held.
Call(r, c, g1, g2) ==
    /\ constructed = MaxConstruct
    /\ nreq < MaxRequests
    /\ Free(rq[r])
    /\ \A s \in Slots : s < r => ~Free(rq[s])
    /\ nreq' = nreq + 1
    /\ LET sid == get_session_id(c, g1)
           q == [IdleReq EXCEPT !.ckind = cookie_kind(c),
                                !.claimed = IF cookie_kind(c) = "none"
                                            THEN NoId ELSE c.value,
                                !.is_new = sid.is_new,
                                !.id = sid.id, !.tLoad = now,
                                !.defLoad = defTimeout]
       IN IF poisoned \/ mapPoisoned
          THEN /\ rq' = Finish(r, [q EXCEPT !.pc = "panicked"])
               /\ UNCHANGED rheld
          ELSE LET s == get_state(store, sid.id)
               IN IF s # None
                  THEN /\ rq' = [rq EXCEPT ![r] =
                                   [q EXCEPT !.pc = "handler",
                                             !.inner = set_session(Unwrap(s), now),
                                             !.seeded = TRUE]]
                       /\ UNCHANGED rheld
                  ELSE /\ rq' = [rq EXCEPT ![r] =
                                   [q EXCEPT !.pc = "newstate",
                                             !.is_new = TRUE,
                                             !.id = g2]]
                       /\ rheld' = rheld \cup {r}
    /\ UNCHANGED <<store, defTimeout, started, spawned, reaper, poisoned,
                   mapPoisoned, now, constructed, issued, nops, touched>>

\* the else branch with the if-let's read guard kept into the handler
LoadNew_guard_kept(r) ==
    /\ rq[r].pc = "newstate"
    /\ rq' = [rq EXCEPT ![r].pc = "handler",
                        ![r].inner = set_session(new_state(defTimeout, now), now)]
    /\ UNCHANGED <<store, defTimeout, started, spawned, reaper, poisoned,
                   mapPoisoned, rheld, now, constructed, issued, nreq, nops, touched>>

\* call(): Session::set_session(STATE_SERVER.read().unwrap().new_state(), ..)
\* a second read() by the thread that still holds the first guard
LoadNew(r) ==
    /\ rq[r].pc = "newstate"
    /\ rq' = [rq EXCEPT ![r].pc = "handler",
                        ![r].inner = set_session(new_state(defTimeout, now), now)]
    /\ rheld' = rheld \ {r}
    /\ UNCHANGED <<store, defTimeout, started, spawned, reaper, poisoned,
                   mapPoisoned, now, constructed, issued, nreq, nops, touched>>

\* the second read() behind a waiting writer: with a writer-preferring RwLock
\* the reader blocks behind the writer that waits for this reader's guard
LoadDeadlock(r) ==
    /\ rq[r].pc = "newstate"
    /\ WriterWaiting
    /\ rq' = [rq EXCEPT ![r].pc = "deadlocked"]
    /\ UNCHANGED <<store, defTimeout, started, spawned, reaper, poisoned,
                   mapPoisoned, rheld, now, constructed, issued, nreq, nops, touched>>

\* the handler calls a method of Session
HandlerOp(r, o) ==
    /\ rq[r].pc = "handler"
    /\ nops < MaxOps
    /\ nops' = nops + 1
    /\ rq' = [rq EXCEPT ![r].inner = apply_op(rq[r].inner, o),
                        ![r].calledUpd = rq[r].calledUpd \/ o.op = "update_timeout",
                        ![r].setAfterPurge = rq[r].setAfterPurge
                             \/ (o.op = "set" /\ rq[r].inner.status = "Purged")]
    /\ UNCHANGED <<store, defTimeout, started, spawned, reaper, poisoned,
                   mapPoisoned, rheld, now, constructed, issued, nreq, touched>>

\* a failing handler whose request still persists the handle's state
HandlerErr_persists(r) ==
    /\ rq[r].pc = "handler"
    /\ ~poisoned
    /\ store' = set_state(store, rq[r].id, rq[r].inner.state)
    /\ rq' = Finish(r, [rq[r] EXCEPT !.pc = "failed"])
    /\ UNCHANGED <<defTimeout, started, spawned, reaper, poisoned, mapPoisoned,
                   rheld, now, constructed, issued, nreq, nops, touched>>

\* the handler returns Err: fut.await.map(..) does not run its closure
HandlerErr(r) ==
    /\ rq[r].pc = "handler"
    /\ rq' = Finish(r, [rq[r] EXCEPT !.pc = "failed"])
    /\ UNCHANGED <<store, defTimeout, started, spawned, reaper, poisoned,
                   mapPoisoned, rheld, now, constructed, issued, nreq, nops, touched>>

\* the handler returns Ok(res): set_cookie if is_new, get_changes, and for
\* Purged remove_cookie; the store operation follows under the write lock.
\* lz is the lazy option of the ServerSession this request runs through.
Respond(r, lz) ==
    /\ rq[r].pc = "handler"
    /\ LET h1 == IF rq[r].is_new THEN set_cookie(<<>>, lz, rq[r].id) ELSE <<>>
           ch == get_changes(rq[r].inner, now)
       IN rq' = [rq EXCEPT ![r].inner = ch.left,
                           ![r].taken = Some(ch.state),
                           ![r].resp = IF ch.status = "Purged"
                                       THEN remove_cookie(h1, now) ELSE h1,
                           ![r].pc = IF ch.status = "Purged"
                                     THEN "remove" ELSE "write"]
    /\ UNCHANGED <<store, defTimeout, started, spawned, reaper, poisoned,
                   mapPoisoned, rheld, now, constructed, issued, nreq, nops, touched>>

\* STATE_SERVER.write() while another thread holds a read guard: blocked
AwaitWrite(r) ==
    /\ rq[r].pc \in {"write", "remove"}
    /\ ~rq[r].waiting
    /\ rheld # {}
    /\ rq' = [rq EXCEPT ![r].waiting = TRUE]
    /\ UNCHANGED <<store, defTimeout, started, spawned, reaper, poisoned,
                   mapPoisoned, rheld, now, constructed, issued, nreq, nops, touched>>

\* (Changed | Renewed | Unchanged, Some(state)):
\* STATE_SERVER.write().unwrap().set_state(&id, &state)
WriteBack(r) ==
    /\ rq[r].pc = "write"
    /\ rheld = {}
    /\ IF poisoned \/ mapPoisoned
       THEN /\ rq' = Finish(r, [rq[r] EXCEPT !.pc = "panicked", !.waiting = FALSE])
            /\ poisoned' = TRUE
            /\ UNCHANGED <<store, issued, touched>>
       ELSE /\ store' = set_state(store, rq[r].id, Unwrap(rq[r].taken))
            /\ touched' = touched \cup {rq[r].id}
            /\ rq' = Finish(r, [rq[r] EXCEPT !.pc = "done", !.waiting = FALSE,
                                             !.wrote = "set",
                                             !.post = store'[rq[r].id]])
            /\ issued' = issued \cup delivered(rq[r].resp)
            /\ UNCHANGED poisoned
    /\ UNCHANGED <<defTimeout, started, spawned, reaper, mapPoisoned, rheld,
                   now, constructed, nreq, nops>>

\* (Purged, _): STATE_SERVER.write().unwrap().remove_state(&id);
\* remove(key).unwrap() panics on an absent key with both write guards held
RemoveBack(r) ==
    /\ rq[r].pc = "remove"
    /\ rheld = {}
    /\ IF poisoned \/ mapPoisoned
       THEN /\ rq' = Finish(r, [rq[r] EXCEPT !.pc = "panicked", !.waiting = FALSE])
            /\ poisoned' = TRUE
            /\ UNCHANGED <<store, issued, mapPoisoned>>
       ELSE IF remove_state_panics(store, rq[r].id)
       THEN /\ rq' = Finish(r, [rq[r] EXCEPT !.pc = "panicked", !.waiting = FALSE])
            /\ poisoned' = TRUE
            /\ mapPoisoned' = TRUE
            /\ UNCHANGED <<store, issued>>
       ELSE /\ store' = remove_state(store, rq[r].id)
            /\ rq' = Finish(r, [rq[r] EXCEPT !.pc = "done", !.waiting = FALSE,
                                             !.wrote = "remove",
                                             !.post = store'[rq[r].id]])
            /\ issued' = issued \cup delivered(rq[r].resp)
            /\ UNCHANGED <<poisoned, mapPoisoned>>
    /\ UNCHANGED <<defTimeout, started, spawned, reaper, rheld, now,
                   constructed, nreq, nops, touched>>

\* one turn of the reaper's loop, from one sleep to the next:
\* thread::sleep(Duration::from_secs(1)) ends, then
\* inner.write().unwrap().retain(..); the unwrap panics on a poisoned lock
\* and ends the thread; a panic of the closure ends the thread with the
\* map's write guard held, which poisons the map's lock
Sweep ==
    /\ reaper = "running"
    /\ IF mapPoisoned
       THEN /\ reaper' = "dead"
            /\ UNCHANGED <<store, now, touched, mapPoisoned>>
       ELSE IF retain_panics(store)
       THEN /\ now < MaxTime
            /\ now' = now + SweepIntervalSecs
            /\ \E visited \in SUBSET {i \in Ids : store[i] # None
                                                   /\ decodes(Unwrap(store[i]))} :
                  store' = retain_until_panic(store, now', visited)
            /\ touched' = {}
            /\ reaper' = "dead"
            /\ mapPoisoned' = TRUE
       ELSE /\ now < MaxTime
            /\ now' = now + SweepIntervalSecs
            /\ store' = retain(store, now')
            /\ touched' = {}
            /\ UNCHANGED <<reaper, mapPoisoned>>
    /\ UNCHANGED <<defTimeout, started, spawned, poisoned, rheld,
                   constructed, issued, nreq, nops, rq>>

\* a second passes with no reaper running
Tick ==
    /\ reaper = "dead"
    /\ now < MaxTime
    /\ now' = now + 1
    /\ touched' = {}
    /\ UNCHANGED <<store, defTimeout, started, spawned, reaper, poisoned,
                   mapPoisoned, rheld, constructed, issued, nreq, nops, rq>>

Next ==
    \/ \E tm \in {None} \cup {Some(m) : m \in Minutes}, keylen \in KeyLens :
          Construct(tm, keylen)
    \/ \E r \in Slots, c \in ClientCookies, g1 \in Ids, g2 \in Ids : Call(r, c, g1, g2)
    \/ \E r \in Slots : LoadNew(r)
    \/ \E r \in Slots : LoadDeadlock(r)
    \/ \E r \in Slots, o \in OpSet : HandlerOp(r, o)
    \/ \E r \in Slots : HandlerErr(r)
    \/ \E r \in Slots, lz \in BOOLEAN : Respond(r, lz)
    \/ \E r \in Slots : AwaitWrite(r)
    \/ \E r \in Slots : WriteBack(r)
    \/ \E r \in Slots : RemoveBack(r)
    \/ Sweep
    \/ Tick

Spec == Init /\ [][Next]_vars

(***************************************************************************)
(* The reaper over arbitrary map contents.                                 *)
(***************************************************************************)
\* what the map can hold under one id: nothing, an entry a request wrote at
\* time 0 (with or without a value, under default timeout 1800 s or 0 s), or
\* a string that does not decode. No write of the program produces the last
\* one: the map is private and set_state stores serialize(state).
StoredValues ==
    {None, Some(Undecodable)}
    \cup {Some(serialize(new_state(d, 0))) : d \in {DefaultTimeoutSecs, 0}}
    \cup {Some(serialize(State_set(new_state(d, 0), "counter", v))) :
              d \in {DefaultTimeoutSecs, 0}, v \in Vals}

\* the server with its reaper asleep and no request, over any such map
InitSweep ==
    /\ defTimeout \in {DefaultTimeoutSecs} \cup {set_timeout(m) : m \in Minutes}
    /\ store \in [Ids -> StoredValues]
    /\ issued = {i \in Ids : store[i] # None}
    /\ started = TRUE
    /\ spawned = 1
    /\ reaper = "running"
    /\ poisoned = FALSE
    /\ mapPoisoned = FALSE
    /\ rheld = {}
    /\ now = 0
    /\ constructed = 1
    /\ nreq = 0
    /\ nops = 0
    /\ touched = {}
    /\ rq = [r \in Slots |-> IdleReq]

NextSweep == Sweep

SpecSweep == InitSweep /\ [][NextSweep]_vars

(***************************************************************************)
(* Requests between two sweeps of the reaper.                              *)
(***************************************************************************)
\* The server half an hour after a client's request left a session under id
\* 1 (default timeout 30 minutes, last_use_time 0), with no request since:
\* the clock reads the entry's last second of life or the second after it,
\* and the reaper, asleep since its last sweep, has not run its next one.
\* Every worker has constructed its ServerSession.
InitLoad ==
    /\ defTimeout \in {DefaultTimeoutSecs} \cup {set_timeout(m) : m \in Minutes}
    /\ store = [i \in Ids |-> IF i = 1 THEN SeedEntry(DefaultTimeoutSecs) ELSE None]
    /\ issued = {1}
    /\ started = TRUE
    /\ spawned = 1
    /\ reaper = "running"
    /\ poisoned = FALSE
    /\ mapPoisoned = FALSE
    /\ rheld = {}
    /\ now \in {DefaultTimeoutSecs, DefaultTimeoutSecs + SweepIntervalSecs}
    /\ constructed = MaxConstruct
    /\ nreq = 0
    /\ nops = 0
    /\ touched = {}
    /\ rq = [r \in Slots |-> IdleReq]

\* the requests' steps; the reaper stays asleep
NextLoad ==
    \/ \E r \in Slots, c \in ClientCookies, g1 \in Ids, g2 \in Ids : Call(r, c, g1, g2)
    \/ \E r \in Slots : LoadNew(r)
    \/ \E r \in Slots : LoadDeadlock(r)
    \/ \E r \in Slots, o \in OpSet : HandlerOp(r, o)
    \/ \E r \in Slots : HandlerErr(r)
    \/ \E r \in Slots, lz \in BOOLEAN : Respond(r, lz)
    \/ \E r \in Slots : AwaitWrite(r)
    \/ \E r \in Slots : WriteBack(r)
    \/ \E r \in Slots : RemoveBack(r)

SpecLoad == InitLoad /\ [][NextLoad]_vars

(***************************************************************************)
(* Properties.                                                             *)
(***************************************************************************)
\* the Set-Cookie that carries session id `id`
SessionCookie(id) ==
    [name |-> CookieName, value |-> id, sig |-> Sign(id),
     max_age |-> None, expires |-> None]

\* the handler of request q returned Ok(res)
HandlerOk(q) == q.taken # None

\* C1: every request that carried no session cookie and whose handler
\* returned Ok without calling purge() ends with a response that carries
\* exactly one Set-Cookie, of the configured name and holding the generated
\* id, and right after it the store holds an entry under that id whose timeout
\* is the store's default timeout at load time.
C1_NewClientCookieAndEntry ==
    \A r \in Slots :
        LET q == rq[r]
        IN (Finished(q) /\ q.ckind = "none" /\ HandlerOk(q)
                /\ q.inner.status # "Purged")
           => /\ q.pc = "done"
              /\ q.resp = <<SessionCookie(q.id)>>
              /\ q.post # None
              /\ deserialize(Unwrap(q.post)).timeout = q.defLoad

\* C2: round trip, step by step. A set(k, v) on a handle makes get(k) return
\* v; finalization detaches the values the handler left; the write-back puts
\* exactly those values in the store under the request's id, whose cookie the
\* client has; and a request presenting a valid cookie for an id in the store
\* starts its handler with exactly the values the store holds under that id.
C2_RoundTrip ==
    [][\A r \in Slots :
          /\ \A o \in OpSet :
                (HandlerOp(r, o) /\ o.op = "set" /\ rq[r].inner.status # "Purged")
                => State_get(rq'[r].inner.state, o.key) = Some(o.arg)
          /\ (rq[r].pc = "handler" /\ rq'[r].pc = "write")
             => \A k \in Keys : State_get(Unwrap(rq'[r].taken), k)
                                = State_get(rq[r].inner.state, k)
          /\ (rq[r].pc = "write" /\ rq'[r].pc = "done")
             => /\ store'[rq[r].id] # None
                /\ \A k \in Keys :
                      State_get(deserialize(Unwrap(store'[rq[r].id])), k)
                      = State_get(Unwrap(rq[r].taken), k)
                /\ (rq[r].is_new \/ rq[r].ckind = "valid") => rq[r].id \in issued'
          /\ (Free(rq[r]) /\ rq'[r].pc = "handler" /\ rq'[r].ckind = "valid")
             => /\ rq'[r].id = rq'[r].claimed
                /\ store[rq'[r].claimed] # None
                /\ \A k \in Keys :
                      State_get(rq'[r].inner.state, k)
                      = State_get(deserialize(Unwrap(store[rq'[r].claimed])), k)
      ]_vars

\* C2 witness: a request that presented an issued cookie is in its handler,
\* has made no call yet, and reads counter = 2: the value an earlier request
\* wrote over the 1 the session started with
C2_ReadsOverwrittenValue ==
    \E r \in Slots :
        /\ rq[r].pc = "handler"
        /\ rq[r].ckind = "valid"
        /\ rq[r].inner.status = "Unchanged"
        /\ State_get(rq[r].inner.state, "counter") = Some(2)

\* C3: a request that completed after its handler called purge() removed the
\* entry under its id, its response ends with a deletion cookie (configured
\* name, empty value, Max-Age 0, expiry in the past), and the state detached
\* from the handle holds no value, whatever set() calls followed the purge().
C3_PurgeRemovesSession ==
    \A r \in Slots :
        LET q == rq[r]
        IN (q.pc = "done" /\ q.inner.status = "Purged")
           => /\ q.wrote = "remove"
              /\ q.post = None
              /\ Len(q.resp) >= 1
              /\ LET c == q.resp[Len(q.resp)]
                 IN /\ c.name = CookieName
                    /\ c.value = NoId
                    /\ c.max_age = Some(0)
                    /\ c.expires # None
                    /\ Unwrap(c.expires) < q.tLoad
              /\ Unwrap(q.taken).value = EmptyMap

\* C3 witness: a completed request whose handler called purge() and then set()
C3_PurgedThenSetCompleted ==
    \E r \in Slots :
        /\ rq[r].pc = "done"
        /\ rq[r].inner.status = "Purged"
        /\ rq[r].setAfterPurge

\* C4: purge() makes the status Purged and the value map empty from any
\* status, and every call on a handle whose status is Purged leaves the status
\* Purged, the value map empty and the timeout as it was.
C4_PurgedAbsorbing ==
    [][\A r \in Slots : \A o \in OpSet :
          HandlerOp(r, o)
          => /\ (o.op = "purge")
                => /\ rq'[r].inner.status = "Purged"
                   /\ rq'[r].inner.state.value = EmptyMap
             /\ (rq[r].inner.status = "Purged")
                => /\ rq'[r].inner.status = "Purged"
                   /\ rq'[r].inner.state.value = EmptyMap
                   /\ rq'[r].inner.state.timeout = rq[r].inner.state.timeout
      ]_vars

\* C4 witness: a handler has called set() on a handle it had purged
C4_SetOnPurgedHandle ==
    \E r \in Slots :
        /\ rq[r].pc = "handler"
        /\ rq[r].inner.status = "Purged"
        /\ rq[r].setAfterPurge

\* C5: a request whose handler returned Ok after purge() completes and
\* returns its response, also when the store has no entry under its id.
C5_RemoveAbsentCompletes ==
    \A r \in Slots :
        LET q == rq[r]
        IN (Finished(q) /\ HandlerOk(q) /\ q.inner.status = "Purged")
           => q.pc = "done"

\* C6: an entry that is expired is in the store only if a request wrote it
\* after the reaper's last wake-up time (one sweep interval after it expired
\* at the latest, the reaper has removed it); and a request that presented a
\* valid cookie for an id with no entry is new: it is not seeded from the
\* store, starts from an empty state with the default timeout, and when it
\* completes its response carries a session cookie for its new id.
C6_ExpiredEntryReaped ==
    /\ \A i \in Ids :
          (store[i] # None /\ is_expired(deserialize(Unwrap(store[i])), now))
          => i \in touched
    /\ \A r \in Slots :
          LET q == rq[r]
          IN (q.ckind = "valid" /\ q.is_new /\ q.pc # "panicked")
             => /\ ~q.seeded
                /\ (q.pc = "handler" /\ q.inner.status = "Unchanged")
                   => /\ q.inner.state.value = EmptyMap
                      /\ q.inner.state.timeout = q.defLoad
                /\ (q.pc = "done") => q.id \in delivered(q.resp)

\* C7: a request without a verified session cookie (missing, other name, bad
\* signature) is new, is not seeded with the stored state of the id its cookie
\* claimed, and does not fail.
C7_InvalidCookieSessionless ==
    \A r \in Slots :
        LET q == rq[r]
        IN (q.pc # "idle" /\ q.ckind # "valid")
           => /\ q.is_new
              /\ ~(q.seeded /\ q.id = q.claimed)
              /\ q.pc # "panicked"

\* C8: with the lazy option, the response to a new client's request whose
\* handler left the session without a value carries no session cookie.
C8_LazySuppressesCookie ==
    [][\A r \in Slots :
          (Respond(r, TRUE) /\ rq[r].is_new /\ rq[r].inner.state.value = EmptyMap)
          => delivered(rq'[r].resp) = {}
      ]_vars

C10_FailedHandlerNoEffect ==
    [][/\ \A r \in Slots :
             /\ (rq[r].pc = "handler" /\ rq'[r].pc = "failed")
                => /\ store' = store
                   /\ issued' = issued
             /\ (rq'[r].pc = "failed")
                => /\ rq'[r].resp = <<>>
                   /\ rq'[r].wrote = "none"
                   /\ ~HandlerOk(rq'[r])
       /\ (store' # store)
          => \/ now' # now
             \/ \E r \in Slots : /\ rq[r].pc \in {"write", "remove"}
                                 /\ HandlerOk(rq[r])
                                 /\ rq'[r].pc = "done"
      ]_vars

\* C10 witness: a request whose handler set a value and then failed; the store
\* has no entry under its id
C10_FailedAfterSet ==
    \E r \in Slots :
        /\ rq[r].pc = "failed"
        /\ rq[r].inner.status = "Changed"
        /\ State_get(rq[r].inner.state, "counter") # None
        /\ store[rq[r].id] = None

\* C11: constructing a ServerSession with a security key shorter than 32
\* bytes fails: no construction step takes place with such a key.
C11_ShortKeyFails ==
    [][\A tm \in {None} \cup {Some(m) : m \in Minutes}, keylen \in KeyLens :
          (Construct(tm, keylen) /\ keylen < MinKeyLen)
          => constructed' = constructed
      ]_vars

\* C12: last write wins. Whenever a request that did not purge completes its
\* write-back, the entry under its id is exactly the state its finalization
\* detached from the handle, whatever another request that loaded the same id
\* wrote there before: no key of the replaced entry survives, and no other
\* entry changes.
C12_LastWriteWins ==
    [][\A r \in Slots :
          (rq[r].pc = "write" /\ rq'[r].pc = "done")
          => /\ store'[rq[r].id] # None
             /\ deserialize(Unwrap(store'[rq[r].id])) = Unwrap(rq[r].taken)
             /\ \A i \in Ids \ {rq[r].id} : store'[i] = store[i]
      ]_vars

\* two requests loaded the stored session (counter = 1); the first set
\* counter to 2 and wrote it back; the second, whose handler made no session
\* call, is about to write back the value it loaded, and then has done so
C12_OverlappingWriters ==
    \E a \in Slots, b \in Slots :
        /\ a # b
        /\ rq[a].pc = "done" /\ rq[a].wrote = "set" /\ rq[a].id = rq[b].id
        /\ rq[a].seeded /\ rq[b].seeded
        /\ State_get(deserialize(Unwrap(rq[a].post)), "counter") = Some(2)
        /\ rq[b].pc = "write" /\ nops = 1
        /\ State_get(Unwrap(rq[b].taken), "counter") = Some(1)
        /\ store[rq[b].id] = rq[a].post

\* C13: while a request's handler runs, the request holds no guard of the
\* store's lock and waits for none: the read guard of the load step is held
\* only between the lookup and new_state, and a request calls write() only
\* once its handler has returned.
C13_NoLockInHandler ==
    /\ \A r \in Slots : rq[r].pc = "handler" => r \notin rheld /\ ~rq[r].waiting
    /\ \A r \in rheld : rq[r].pc \in {"newstate", "deadlocked"}
    /\ \A r \in Slots : rq[r].waiting => rq[r].pc \in {"write", "remove"}

\* a request that went through the else branch, where the read guard is held,
\* is in its handler and has made a session call, while another request holds
\* the read guard in its own load step
C13_HandlerAfterLoadNew ==
    \E r \in Slots, s \in Slots :
        /\ rq[r].pc = "handler" /\ rq[r].is_new /\ ~rq[r].seeded
        /\ rq[r].inner.status = "Changed"
        /\ s \in rheld

C15_FreshIdUnique ==
    [][\A r \in Slots :
          (Free(rq[r]) /\ rq'[r].pc \in {"handler", "newstate"} /\ rq'[r].is_new)
          => store[rq'[r].id] = None /\ ~rq'[r].seeded
      ]_vars

\* C16: start() is idempotent. A construction after the first, whose
\* ServerSession::new calls start() again, spawns no thread and leaves the
\* reaper as it is; at most one reaper thread is ever spawned.
C16_StartIdempotent ==
    [][/\ spawned' <= 1
       /\ \A tm \in {None} \cup {Some(m) : m \in Minutes}, keylen \in KeyLens :
             Construct(tm, keylen)
             => started' /\ spawned' = spawned /\ reaper' = reaper
      ]_vars

\* every worker has constructed its ServerSession, so start() was called
\* MaxConstruct times, one thread was spawned and it still runs after a sweep
C16_StartedTwice ==
    /\ constructed = MaxConstruct
    /\ constructed > 1
    /\ spawned = 1
    /\ reaper = "running"
    /\ now > 0

\* C17: set_timeout is not retroactive. A change of the default timeout
\* leaves every entry of the store as it is; a handle seeded from an entry
\* has the entry's timeout; as long as the handler has not called
\* update_timeout the handle keeps it; the state finalization detaches has
\* it; and the entry written back has it.
C17_TimeoutNotRetroactive ==
    [][/\ defTimeout' # defTimeout => store' = store
       /\ \A r \in Slots :
             /\ (Free(rq[r]) /\ rq'[r].pc = "handler" /\ rq'[r].seeded)
                => rq'[r].inner.state.timeout
                     = deserialize(Unwrap(store[rq'[r].id])).timeout
             /\ (rq[r].pc = "handler" /\ rq'[r].pc = "handler"
                                      /\ ~rq'[r].calledUpd)
                => rq'[r].inner.state.timeout = rq[r].inner.state.timeout
             /\ (rq[r].pc = "handler" /\ rq'[r].pc \in {"write", "remove"})
                => Unwrap(rq'[r].taken).timeout = rq[r].inner.state.timeout
             /\ (rq[r].pc = "write" /\ rq'[r].pc = "done")
                => deserialize(Unwrap(store'[rq[r].id])).timeout
                     = Unwrap(rq[r].taken).timeout
      ]_vars

\* the default timeout was set to 0 after the stored session was created
\* under 30 minutes; a later request with that session's cookie loaded it,
\* set a value without calling update_timeout, and wrote it back: the entry
\* still has 30 minutes
C17_OldEntryKeepsTimeout ==
    \E r \in Slots :
        /\ rq[r].pc = "done" /\ rq[r].wrote = "set"
        /\ rq[r].ckind = "valid" /\ rq[r].seeded /\ ~rq[r].calledUpd
        /\ State_get(Unwrap(rq[r].taken), "counter") = Some(2)
        /\ defTimeout # DefaultTimeoutSecs
        /\ rq[r].defLoad = defTimeout
        /\ store[rq[r].id] = rq[r].post
        /\ deserialize(Unwrap(rq[r].post)).timeout = DefaultTimeoutSecs

\* C18: status transitions of a handle. A handle is Unchanged when its
\* request reaches the handler, seeded from the store or not; set, remove,
\* clear and update_timeout turn Unchanged into Changed and leave every other
\* status, Renewed included, as it is; renew() gives Renewed unless the
\* status is Purged; purge() gives Purged.
C18_StatusTransitions ==
    [][\A r \in Slots :
          /\ (rq[r].pc # "handler" /\ rq'[r].pc = "handler")
             => rq'[r].inner.status = "Unchanged"
          /\ \A o \in OpSet :
                HandlerOp(r, o)
                => rq'[r].inner.status =
                     CASE o.op \in {"set", "remove", "clear", "update_timeout"} ->
                            IF rq[r].inner.status = "Unchanged" THEN "Changed"
                            ELSE rq[r].inner.status
                       [] o.op = "renew" ->
                            IF rq[r].inner.status = "Purged" THEN "Purged"
                            ELSE "Renewed"
                       [] o.op = "purge" -> "Purged"
      ]_vars

\* C19: the load step is free of deadlock. No request calls read() on the
\* store's lock while it still holds a read guard of it, and no request ends
\* up blocked for ever between its lookup and new_state, also when another
\* request waits in write().
C19_LoadStepDeadlockFree ==
    [][\A r \in Slots :
          /\ LoadNew(r) => r \notin rheld
          /\ rq'[r].pc # "deadlocked"
      ]_vars

\* C20: a purged id is never re-created. Once a request whose handler purged
\* the session has completed and removed the entry under its id, no step
\* puts an entry under that id again, also not the write-back of a request
\* that loaded the session before the purge.
C20_PurgedIdNotRecreated ==
    [][\A b \in Slots :
          (rq[b].pc = "done" /\ rq[b].wrote = "remove")
          => store'[rq[b].id] = None
      ]_vars

\* C21: an expired state is never handed to a request. A request whose
\* handle is seeded from the store found, at load time, an entry that is not
\* expired; and no write-back puts an entry with a refreshed last_use_time
\* where an expired entry was that the reaper has not swept yet.
C21_ExpiredNeverHandedOut ==
    [][\A r \in Slots :
          /\ (Free(rq[r]) /\ rq'[r].pc = "handler" /\ rq'[r].seeded)
             => ~is_expired(deserialize(Unwrap(store[rq'[r].id])), now)
          /\ (rq[r].pc = "write" /\ rq'[r].pc = "done"
                 /\ store[rq[r].id] # None
                 /\ is_expired(deserialize(Unwrap(store[rq[r].id])), now))
             => is_expired(deserialize(Unwrap(store'[rq[r].id])), now)
      ]_vars

\* C22: store keys are generated by the server in the request that creates
\* the entry. A request that presented a validly signed id with no entry in
\* the store runs under a generated id that is not the id it presented, is
\* not seeded, and when it completes with a write-back the entry is under
\* that generated id and the response carries the cookie for it.
C22_KeysServerGenerated ==
    \A r \in Slots :
        LET q == rq[r]
        IN (q.ckind = "valid" /\ q.is_new)
           => /\ q.id # q.claimed
              /\ ~q.seeded
              /\ (q.pc = "done" /\ q.wrote = "set")
                 => /\ q.post # None
                    /\ q.id \in delivered(q.resp)

\* C23: failure containment. Whatever requests have run, purges of absent
\* ids included, neither lock of the store is poisoned, so a later request's
\* read().unwrap() and write().unwrap() succeed, and the reaper is running.
C23_FailureContained ==
    /\ ~poisoned
    /\ ~mapPoisoned
    /\ reaper = "running"

====
